---- MODULE Spec2Model ----
(***************************************************************************)
(* The cart store of the storefront client (CartProvider) together with    *)
(* the flows that drive it: login, logout, the product and cart pages, and *)
(* the browser's localStorage shared by the tabs of one origin.            *)
(*                                                                         *)
(* One browser tab is one React root.  A call of setCartItems is queued;   *)
(* a render applies the queued calls in order and commits the new          *)
(* cartItems; the save effect of that render runs after the commit.  A     *)
(* click handler, its render and its save effect form one run of the tab   *)
(* (modes "handler" and "commit"); updates made in a promise continuation  *)
(* or in a native event listener are rendered, and their effect run, in    *)
(* later tasks of the tab.  Tabs interleave at the steps of this module.   *)
(***************************************************************************)
EXTENDS Integers, Sequences, FiniteSets, TLC

VARIABLES
    storage,    \* localStorage of the origin: key -> JSON text (NoItem when absent)
    mode,       \* per tab: "closed", "mounting", "idle", "handler", "commit", or
                \* "crashed" once a render threw and React unmounted the root
    cartItems,  \* per tab: the committed useState value
    updates,    \* per tab: the setCartItems calls not yet rendered
    saveDue,    \* per tab: the save effect of the last commit has not run yet
    refKey,     \* per tab: storageKeyRef.key of the object the listeners closed over
    inbox,      \* per tab: keys of the 'storage' events dispatched to the tab, not yet handled
    order,      \* per tab: the order Checkout awaits orderService.create for, if any
    ops,        \* number of user-level events so far (bounded by MaxOps)
    writable,   \* localStorage.setItem succeeds; FALSE when every write throws
    strict,     \* the build double-invokes effects on mount (React.StrictMode in a
                \* development build); FALSE for the production build
    closedWith, \* history: the cart a tab had persisted when it was closed (a set of at most one)
    addCalls    \* history: per product id, the addToCart calls since the id was last absent
                \* (Unknown once its quantity was set some other way)

vars == <<storage, mode, cartItems, updates, saveDue, refKey, inbox, order, ops,
          writable, strict, closedWith, addCalls>>

-----------------------------------------------------------------------------
(* Bounds of the exploration *)

MaxQuantity == 3
MaxPending == 2
MaxOps == 5
MaxSharedOps == 3

First == "tabA"
Second == "tabB"
Tabs == {First, Second}
ProductIds == {1, 2}
UserIds == {1, 2}

\* product descriptors as the pages pass them to addToCart
Catalog == { [id |-> 1, price |-> 10], [id |-> 2, price |-> 5] }

-----------------------------------------------------------------------------
(* localStorage keys and JSON texts *)

LegacyKey == "cart"
GuestKey == "cart_guest"
UserKeyOf == <<"cart_user_1", "cart_user_2">>
CartKeys == {GuestKey} \cup {UserKeyOf[i] : i \in UserIds}
Keys == {"user", "token", LegacyKey} \cup CartKeys

\* what getItem returns for a key that is not set (null)
NoItem == [json |-> "none"]

\* a non-null, non-empty string is truthy
Truthy(text) == text # NoItem

Line(id, price, quantity) == [id |-> id, price |-> price, quantity |-> quantity]

RECURSIVE SeqMap(_, _)
SeqMap(Op(_), s) == IF s = <<>> THEN <<>> ELSE <<Op(Head(s))>> \o SeqMap(Op, Tail(s))

\* JSON.stringify of a cart: an array text holding one member list per line
JSONstringify(items) ==
    LET Member(l) == <<l.id, l.price, l.quantity>>
    IN [json |-> "array", items |-> SeqMap(Member, items)]

\* stored texts that are not a serialized list of lines: text that is not
\* JSON, and JSON for null, a number or an object
CorruptTexts ==
    { [json |-> "garbage"], [json |-> "null"], [json |-> "number"],
      [json |-> "object", id |-> 0] }

\* JSON.parse throws a SyntaxError on a text that is not JSON
ParseThrows(text) == text.json \notin {"array", "object", "string", "null", "number"}

\* JSON.parse gives an array
ParsesToList(text) == text.json = "array"

\* JSON.parse of a stored cart text
JSONparse(text) ==
    LET Obj(m) == Line(m[1], m[2], m[3])
    IN SeqMap(Obj, text.items)

\* JSON.stringify(response.data.user)
UserText(uid) == [json |-> "object", id |-> uid]

TokenText(uid) == [json |-> "string", chars |-> uid]

getStorageKey(store) ==
    LET user == store["user"]
    IN IF user.json = "object" /\ user.id # 0 THEN UserKeyOf[user.id] ELSE GuestKey

\* no order request is in flight
NoOrder == [status |-> "none"]

\* the request of an order in flight: the items of the order object, and the
\* cart key of the identity the order was submitted under
Sent(items, key) == [status |-> "sent", items |-> items, key |-> key]

-----------------------------------------------------------------------------
(* The functions handed to setCartItems *)

HasId(items, id) == \E i \in 1..Len(items) : items[i].id = id

\* addToCart without the lookup of an existing line: the product is appended
addItemAppend(prevItems, product) ==
    Append(prevItems, Line(product.id, product.price, 1))

\* addToCart that resets an existing line to quantity 1 instead of adding 1
addItemReset(prevItems, product) ==
    LET Reset(item) == IF item.id = product.id
                       THEN [item EXCEPT !.quantity = 1]
                       ELSE item
    IN IF HasId(prevItems, product.id)
       THEN SeqMap(Reset, prevItems)
       ELSE Append(prevItems, Line(product.id, product.price, 1))

\* addToCart that puts a new line in front of the others
addItemFront(prevItems, product) ==
    LET Bump(item) == IF item.id = product.id
                      THEN [item EXCEPT !.quantity = item.quantity + 1]
                      ELSE item
    IN IF HasId(prevItems, product.id)
       THEN SeqMap(Bump, prevItems)
       ELSE <<Line(product.id, product.price, 1)>> \o prevItems

addItem(prevItems, product) ==
    LET Bump(item) == IF item.id = product.id
                      THEN [item EXCEPT !.quantity = item.quantity + 1]
                      ELSE item
    IN IF HasId(prevItems, product.id)
       THEN SeqMap(Bump, prevItems)
       ELSE Append(prevItems, Line(product.id, product.price, 1))

\* removeFromCart that takes one unit off the line, dropping it at zero
removeItemDecrement(prevItems, productId) ==
    LET Less(item) == IF item.id = productId
                      THEN [item EXCEPT !.quantity = item.quantity - 1]
                      ELSE item
    IN SelectSeq(SeqMap(Less, prevItems), LAMBDA item : item.quantity > 0)

removeItem(prevItems, productId) ==
    SelectSeq(prevItems, LAMBDA item : item.id # productId)

\* a quantity update that adds the line when the cart has none for the id
setQuantityUpsert(prevItems, productId, quantity) ==
    LET Put(item) == IF item.id = productId
                     THEN [item EXCEPT !.quantity = quantity]
                     ELSE item
        product == CHOOSE p \in Catalog : p.id = productId
    IN IF HasId(prevItems, productId)
       THEN SeqMap(Put, prevItems)
       ELSE Append(prevItems, Line(productId, product.price, quantity))

setQuantity(prevItems, productId, quantity) ==
    LET Put(item) == IF item.id = productId
                     THEN [item EXCEPT !.quantity = quantity]
                     ELSE item
    IN SeqMap(Put, prevItems)

\* one queued setCartItems call applied to the state before it
ApplyUpdate(prevItems, u) ==
    CASE u.op = "add" -> addItem(prevItems, u.product)
      [] u.op = "remove" -> removeItem(prevItems, u.id)
      [] u.op = "quantity" -> setQuantity(prevItems, u.id, u.quantity)
      [] u.op = "set" -> u.items

\* updaters that read the rendered cart instead of the previous state: of the
\* calls of one handler only the last one takes effect
ApplyLast(prevItems, us) ==
    IF us = <<>> THEN prevItems ELSE ApplyUpdate(prevItems, us[Len(us)])

RECURSIVE ApplyAll(_, _)
ApplyAll(prevItems, us) ==
    IF us = <<>> THEN prevItems ELSE ApplyAll(ApplyUpdate(prevItems, Head(us)), Tail(us))

\* the cart the queued calls of tab t produce
Pending(t) == ApplyAll(cartItems[t], updates[t])

-----------------------------------------------------------------------------
(* Queries of the context value, closed over the committed cartItems *)

RECURSIVE Reduce(_, _, _)
Reduce(Op(_, _), items, acc) ==
    IF items = <<>> THEN acc ELSE Reduce(Op, Tail(items), Op(acc, Head(items)))

\* a total that leaves the quantities out
getCartTotalPrices(t) ==
    LET Step(total, item) == total + item.price
    IN Reduce(Step, cartItems[t], 0)

getCartTotal(t) ==
    LET Step(total, item) == total + item.price * item.quantity
    IN Reduce(Step, cartItems[t], 0)

\* a count of the lines instead of their quantities
getCartItemsCountLines(t) == Len(cartItems[t])

getCartItemsCount(t) ==
    LET Step(count, item) == count + item.quantity
    IN Reduce(Step, cartItems[t], 0)

-----------------------------------------------------------------------------
(* localStorage writes and the 'storage' events they cause in other tabs *)

Write(key, value) == [key |-> key, value |-> value]

RECURSIVE ApplyWrites(_, _)
ApplyWrites(store, ws) ==
    IF ws = <<>> THEN store
    ELSE ApplyWrites([store EXCEPT ![Head(ws).key] = Head(ws).value], Tail(ws))

\* keys whose value the writes really change: only those raise a 'storage' event
RECURSIVE ChangedKeys(_, _)
ChangedKeys(store, ws) ==
    IF ws = <<>> THEN {}
    ELSE LET w == Head(ws)
         IN (IF store[w.key] # w.value THEN {w.key} ELSE {})
            \cup ChangedKeys([store EXCEPT ![w.key] = w.value], Tail(ws))

\* listeners that outlive the cleanup of the load effect
ListeningAlways(t) == mode[t] \in {"idle", "handler", "commit", "closed", "crashed"}

\* the listeners of the load effect are registered
Listening(t) == mode[t] \in {"idle", "handler", "commit"}

\* keys onStorage can react to; an event for any other key ("user", "token")
\* returns from onStorage at once and is not kept
Watched == CartKeys \cup {LegacyKey}

\* the inboxes after tab t, whose own inbox becomes own, has written ws
Delivered(t, ws, own) ==
    [o \in Tabs |->
        IF o = t THEN own
        ELSE IF Listening(o) THEN inbox[o] \cup (ChangedKeys(storage, ws) \cap Watched)
        ELSE inbox[o]]

\* tab t performs the writes ws; every other listening tab is notified
Store(t, ws, own) ==
    /\ storage' = ApplyWrites(storage, ws)
    /\ inbox' = Delivered(t, ws, own)

-----------------------------------------------------------------------------
(* CartProvider effects *)

\* the lines of the value setCartItems receives for a stored text: the parsed
\* array, [] from the catch when JSON.parse throws, none when the parsed
\* value is not an array
ParsedOrEmpty(text) ==
    IF ParsesToList(text) THEN JSONparse(text) ELSE <<>>

\* the value setCartItems receives for a stored text is an array
ListOrEmpty(text) == ParseThrows(text) \/ ParsesToList(text)

\* a load that always reads the guest key, whoever is logged in
loadCartGuestOnly(store) ==
    LET perUser == store[GuestKey]
    IN [key |-> getStorageKey(store), writes |-> <<>>,
        items |-> IF Truthy(perUser) THEN ParsedOrEmpty(perUser) ELSE <<>>,
        list |-> TRUE]

\* a load that migrates the legacy cart whenever there is one, without
\* looking at the per-user key first
loadCartLegacyFirst(store) ==
    LET key == getStorageKey(store)
        perUser == store[key]
        legacy == store[LegacyKey]
    IN IF Truthy(legacy)
       THEN [key |-> key,
             writes |-> <<Write(key, legacy), Write(LegacyKey, NoItem)>>,
             items |-> ParsedOrEmpty(legacy), list |-> ListOrEmpty(legacy)]
       ELSE IF Truthy(perUser)
       THEN [key |-> key, writes |-> <<>>,
             items |-> ParsedOrEmpty(perUser), list |-> ListOrEmpty(perUser)]
       ELSE [key |-> key, writes |-> <<>>, items |-> <<>>, list |-> TRUE]

\* loadCartFromStorage against the store: the key it resolves, the writes of the
\* legacy migration and the value it hands to setCartItems (its lines, and
\* whether it is an array at all).  When setItem throws, the migration is
\* left by the catch, which calls setCartItems([]).
loadCartFromStorage(store) ==
    LET key == getStorageKey(store)
        perUser == store[key]
        legacy == store[LegacyKey]
    IN IF ~Truthy(perUser) /\ Truthy(legacy)
       THEN IF writable
            THEN [key |-> key,
                  writes |-> <<Write(key, legacy), Write(LegacyKey, NoItem)>>,
                  items |-> ParsedOrEmpty(legacy), list |-> ListOrEmpty(legacy)]
            ELSE [key |-> key, writes |-> <<>>, items |-> <<>>, list |-> TRUE]
       ELSE IF Truthy(perUser)
       THEN [key |-> key, writes |-> <<>>,
             items |-> ParsedOrEmpty(perUser), list |-> ListOrEmpty(perUser)]
       ELSE [key |-> key, writes |-> <<>>, items |-> <<>>, list |-> TRUE]

\* setCartItems(items) with an array
SetItems(items) == [op |-> "set", items |-> items, by |-> "setCartItems", list |-> TRUE]

\* setCartItems(value) with what a load produced
SetLoaded(load) ==
    [op |-> "set", items |-> load.items, by |-> "setCartItems", list |-> load.list]

\* the queue after one more setCartItems call; a call that passes a value makes
\* the calls queued before it irrelevant to the next render
Enqueue(us, u) == IF u.op = "set" THEN <<u>> ELSE Append(us, u)

\* a save effect that writes under the legacy key
saveWritesLegacy(store, items) ==
    IF writable THEN <<Write(LegacyKey, JSONstringify(items))>> ELSE <<>>

\* the save effect of a commit whose cartItems is items, against the store;
\* a setItem that throws is swallowed by its catch
saveWrites(store, items) ==
    IF writable THEN <<Write(getStorageKey(store), JSONstringify(items))>> ELSE <<>>

-----------------------------------------------------------------------------
Init ==
    /\ storage \in
          { [k \in Keys |-> CASE k = LegacyKey -> legacy
                              [] k = UserKeyOf[2] -> earlier
                              [] OTHER -> NoItem] :
              legacy \in {NoItem, JSONstringify(<<Line(1, 10, 2)>>)},
              earlier \in {NoItem, JSONstringify(<<Line(2, 5, 1)>>)} }
    /\ mode = [t \in Tabs |-> "closed"]
    /\ cartItems = [t \in Tabs |-> <<>>]
    /\ updates = [t \in Tabs |-> <<>>]
    /\ saveDue = [t \in Tabs |-> FALSE]
    /\ refKey = [t \in Tabs |-> GuestKey]
    /\ inbox = [t \in Tabs |-> {}]
    /\ order = [t \in Tabs |-> NoOrder]
    /\ ops = 0
    /\ writable = TRUE
    /\ strict \in BOOLEAN
    /\ closedWith = [t \in Tabs |-> {}]
    /\ addCalls = [id \in ProductIds |-> 0]

-----------------------------------------------------------------------------
(* Lifecycle of a tab *)

\* the page is opened: first render of CartProvider, effects not yet run
Open(t) ==
    /\ mode[t] = "closed"
    /\ ops < MaxOps
    /\ mode' = [mode EXCEPT ![t] = "mounting"]
    /\ cartItems' = [cartItems EXCEPT ![t] = <<>>]
    /\ updates' = [updates EXCEPT ![t] = <<>>]
    /\ saveDue' = [saveDue EXCEPT ![t] = FALSE]
    /\ refKey' = [refKey EXCEPT ![t] = getStorageKey(storage)]
    /\ inbox' = [inbox EXCEPT ![t] = {}]
    /\ ops' = ops + 1
    /\ UNCHANGED <<storage, order>>

\* one pass over the effects of the first commit, in declaration order: the
\* load effect (loadCartFromStorage, then the two listeners), then the save
\* effect with the items of the first render
MountPass(store, items) ==
    LET load == loadCartFromStorage(store)
        loaded == ApplyWrites(store, load.writes)
    IN [key |-> getStorageKey(loaded),
        writes |-> load.writes \o saveWrites(loaded, items),
        items |-> load.items,
        list |-> load.list]

\* the effects of the first commit.  Under React.StrictMode a development
\* build runs them, runs their cleanups and runs them again before anything
\* is rendered; the production build runs them once.
MountEffects(t) ==
    /\ mode[t] = "mounting"
    /\ LET first == MountPass(storage, cartItems[t])
           again == MountPass(ApplyWrites(storage, first.writes), cartItems[t])
           passes == IF strict THEN <<first, again>> ELSE <<first>>
           last == passes[Len(passes)]
       IN /\ Store(t, IF strict THEN first.writes \o again.writes ELSE first.writes,
                   inbox[t])
          /\ refKey' = [refKey EXCEPT ![t] = last.key]
          /\ updates' = [updates EXCEPT ![t] =
                            IF strict
                            THEN Enqueue(Enqueue(@, SetLoaded(first)), SetLoaded(again))
                            ELSE Enqueue(@, SetLoaded(first))]
    /\ mode' = [mode EXCEPT ![t] = "idle"]
    /\ UNCHANGED <<cartItems, saveDue, order, ops>>

\* the tab is closed or the page unloaded: state and listeners are gone
Close(t) ==
    /\ mode[t] \in {"mounting", "idle", "crashed"}
    /\ ops < MaxOps
    /\ mode' = [mode EXCEPT ![t] = "closed"]
    /\ cartItems' = [cartItems EXCEPT ![t] = <<>>]
    /\ updates' = [updates EXCEPT ![t] = <<>>]
    /\ saveDue' = [saveDue EXCEPT ![t] = FALSE]
    /\ refKey' = [refKey EXCEPT ![t] = GuestKey]
    /\ inbox' = [inbox EXCEPT ![t] = {}]
    /\ order' = [order EXCEPT ![t] = NoOrder]
    /\ ops' = ops + 1
    /\ UNCHANGED storage

-----------------------------------------------------------------------------
(* React: render and the save effect *)

\* the queued calls of tab t leave cartItems an array: no setCartItems call
\* passed a value that is not one
Renders(t) ==
    \A i \in 1..Len(updates[t]) : updates[t][i].op = "set" => updates[t][i].list

\* a render of CartProvider: an effect still due from the previous commit is
\* run first, then the queued setCartItems calls are applied in call order.
\* With a cartItems that is not an array the updaters (prevItems.find,
\* .filter, .map) and the consumers rendered below the provider
\* (getCartItemsCount in Navbar, cartItems.length in Cart) throw a TypeError;
\* no error boundary catches it and React unmounts the root.
Render(t) ==
    /\ \/ mode[t] = "handler"
       \/ mode[t] = "idle" /\ updates[t] # <<>>
    /\ Store(t, IF saveDue[t] THEN saveWrites(storage, cartItems[t]) ELSE <<>>,
             IF Renders(t) THEN inbox[t] ELSE {})
    /\ cartItems' = [cartItems EXCEPT ![t] = IF Renders(t) THEN Pending(t) ELSE <<>>]
    /\ updates' = [updates EXCEPT ![t] = <<>>]
    /\ saveDue' = [saveDue EXCEPT ![t] = Renders(t)]
    /\ mode' = [mode EXCEPT ![t] = IF ~Renders(t) THEN "crashed"
                                   ELSE IF mode[t] = "handler" THEN "commit" ELSE "idle"]
    /\ order' = [order EXCEPT ![t] = IF Renders(t) THEN @ ELSE NoOrder]
    /\ UNCHANGED <<refKey, ops>>

\* a save effect without its try/catch: a setItem that throws fails the tab
SaveUncaught(t) ==
    /\ saveDue[t]
    /\ mode[t] \in {"idle", "commit"}
    /\ Store(t, saveWrites(storage, cartItems[t]), IF writable THEN inbox[t] ELSE {})
    /\ saveDue' = [saveDue EXCEPT ![t] = FALSE]
    /\ mode' = [mode EXCEPT ![t] = IF writable THEN "idle" ELSE "crashed"]
    /\ UNCHANGED <<cartItems, updates, refKey, order, ops>>

\* the save effect of the last commit
Save(t) ==
    /\ saveDue[t]
    /\ mode[t] \in {"idle", "commit"}
    /\ Store(t, saveWrites(storage, cartItems[t]), inbox[t])
    /\ saveDue' = [saveDue EXCEPT ![t] = FALSE]
    /\ mode' = [mode EXCEPT ![t] = "idle"]
    /\ UNCHANGED <<cartItems, updates, refKey, order, ops>>

-----------------------------------------------------------------------------
(* The cart operations, called from click handlers of the pages *)

\* setCartItems(u) from a click handler
Call(t, u) ==
    /\ mode[t] \in {"idle", "handler"}
    /\ Len(updates[t]) < MaxPending
    /\ ops < MaxOps
    /\ updates' = [updates EXCEPT ![t] = Enqueue(@, u)]
    /\ mode' = [mode EXCEPT ![t] = "handler"]
    /\ ops' = ops + 1
    /\ UNCHANGED <<storage, cartItems, saveDue, refKey, inbox, order>>

QuantityOf(items, id) ==
    IF HasId(items, id)
    THEN (CHOOSE l \in {items[i] : i \in 1..Len(items)} : l.id = id).quantity
    ELSE 0

\* the setCartItems call each operation makes; "by" names the operation called
addToCartCall(product) == [op |-> "add", product |-> product, by |-> "addToCart"]

removeFromCartCall(productId, by) == [op |-> "remove", id |-> productId, by |-> by]

\* updateQuantity that removes for negative quantities only
updateQuantityCallNegative(productId, quantity) ==
    IF quantity < 0
    THEN removeFromCartCall(productId, "updateQuantity")
    ELSE [op |-> "quantity", id |-> productId, quantity |-> quantity,
          by |-> "updateQuantity"]

\* updateQuantity without its guard on the quantity
updateQuantityCallUnguarded(productId, quantity) ==
    [op |-> "quantity", id |-> productId, quantity |-> quantity, by |-> "updateQuantity"]

updateQuantityCall(productId, quantity) ==
    IF quantity <= 0
    THEN removeFromCartCall(productId, "updateQuantity")
    ELSE [op |-> "quantity", id |-> productId, quantity |-> quantity,
          by |-> "updateQuantity"]

addToCart(t, product) ==
    /\ QuantityOf(Pending(t), product.id) < MaxQuantity
    /\ Call(t, addToCartCall(product))

removeFromCart(t, productId) ==
    Call(t, removeFromCartCall(productId, "removeFromCart"))

updateQuantity(t, productId, quantity) ==
    Call(t, updateQuantityCall(productId, quantity))

\* clearCart, called outside a click handler
clearCart(t) ==
    /\ mode[t] = "idle"
    /\ updates' = [updates EXCEPT ![t] = Enqueue(@, SetItems(<<>>))]
    /\ UNCHANGED <<storage, mode, cartItems, saveDue, refKey, inbox>>

-----------------------------------------------------------------------------
(* Checkout *)

\* Checkout.handleSubmit up to its await: with an empty cart it returns after
\* a toast, otherwise the order is sent
handleSubmit(t) ==
    /\ mode[t] = "idle"
    /\ order[t] = NoOrder
    /\ ops < MaxOps
    /\ order' = [order EXCEPT ![t] = IF cartItems[t] = <<>>
                                      THEN NoOrder
                                      ELSE Sent(cartItems[t], getStorageKey(storage))]
    /\ ops' = ops + 1
    /\ UNCHANGED <<storage, mode, cartItems, updates, saveDue, refKey, inbox>>

\* a continuation of handleSubmit that leaves the cart alone
orderCreatedKeepsCart(t) ==
    /\ order[t].status = "sent"
    /\ mode[t] = "idle"
    /\ order' = [order EXCEPT ![t] = NoOrder]
    /\ UNCHANGED <<storage, mode, cartItems, updates, saveDue, refKey, inbox, ops>>

\* orderService.create resolved: the continuation of handleSubmit calls clearCart
orderCreated(t) ==
    /\ order[t].status = "sent"
    /\ clearCart(t)
    /\ order' = [order EXCEPT ![t] = NoOrder]
    /\ UNCHANGED ops

\* a catch of handleSubmit that empties the cart as the success path does
orderFailedClears(t) ==
    /\ order[t].status = "sent"
    /\ clearCart(t)
    /\ order' = [order EXCEPT ![t] = NoOrder]
    /\ UNCHANGED ops

\* orderService.create rejected: the catch of handleSubmit shows a toast
orderFailed(t) ==
    /\ order[t].status = "sent"
    /\ mode[t] = "idle"
    /\ order' = [order EXCEPT ![t] = NoOrder]
    /\ UNCHANGED <<storage, mode, cartItems, updates, saveDue, refKey, inbox, ops>>

-----------------------------------------------------------------------------
(* Identity changes and storage events *)

\* a listener body that resolves the key again without calling setCartItems
ReloadKeyOnly(t, ws, own) ==
    LET load == loadCartFromStorage(ApplyWrites(storage, ws))
    IN /\ Store(t, ws \o load.writes, own)
       /\ refKey' = [refKey EXCEPT ![t] = load.key]
       /\ UNCHANGED updates

\* the listener body shared by onAuthChanged and onStorage: tab t has just
\* written ws and now runs loadCartFromStorage
Reload(t, ws, own) ==
    LET load == loadCartFromStorage(ApplyWrites(storage, ws))
    IN /\ Store(t, ws \o load.writes, own)
       /\ refKey' = [refKey EXCEPT ![t] = load.key]
       /\ updates' = [updates EXCEPT ![t] = Enqueue(@, SetLoaded(load))]

\* Login.handleSubmit after the response arrived; when setItem throws, its
\* catch shows a toast and nothing is written or dispatched
Login(t, uid) ==
    /\ mode[t] = "idle"
    /\ writable
    /\ ops < MaxOps
    /\ Reload(t, <<Write("token", TokenText(uid)), Write("user", UserText(uid))>>, inbox[t])
    /\ ops' = ops + 1
    /\ UNCHANGED <<mode, cartItems, saveDue, order>>

\* a logout that removes the records without dispatching authChanged
LogoutSilent(t) ==
    /\ mode[t] = "idle"
    /\ storage["user"] # NoItem \/ refKey[t] # GuestKey
    /\ ops < MaxOps
    /\ Store(t, <<Write("user", NoItem), Write("token", NoItem)>>, inbox[t])
    /\ mode' = [mode EXCEPT ![t] = "handler"]
    /\ ops' = ops + 1
    /\ UNCHANGED <<cartItems, updates, saveDue, refKey, order>>

\* Navbar.handleLogout, a click handler: shown once the tab has seen a user
Logout(t) ==
    /\ mode[t] = "idle"
    /\ storage["user"] # NoItem \/ refKey[t] # GuestKey
    /\ ops < MaxOps
    /\ Reload(t, <<Write("user", NoItem), Write("token", NoItem)>>, inbox[t])
    /\ mode' = [mode EXCEPT ![t] = "handler"]
    /\ ops' = ops + 1
    /\ UNCHANGED <<cartItems, saveDue, order>>

\* a storage listener without the filter on e.key
onStorageAny(t, e) ==
    /\ mode[t] = "idle"
    /\ e \in inbox[t]
    /\ Reload(t, <<>>, inbox[t] \ {e})
    /\ UNCHANGED <<mode, cartItems, saveDue, order, ops>>

\* onStorage for an event of the tab whose key is e
onStorage(t, e) ==
    /\ mode[t] = "idle"
    /\ e \in inbox[t]
    /\ IF e = refKey[t] \/ e = LegacyKey
       THEN Reload(t, <<>>, inbox[t] \ {e})
       ELSE /\ inbox' = [inbox EXCEPT ![t] = @ \ {e}]
            /\ UNCHANGED <<storage, refKey, updates>>
    /\ UNCHANGED <<mode, cartItems, saveDue, order, ops>>

-----------------------------------------------------------------------------
\* a step of the tabs sharing the origin
Shared(t) ==
    /\ ops' <= MaxSharedOps
    /\ UNCHANGED <<writable, strict, closedWith, addCalls>>

\* one guest tab is open, its empty cart persisted; the other tab is closed
InitShared ==
    /\ storage = [k \in Keys |-> IF k = GuestKey THEN JSONstringify(<<>>) ELSE NoItem]
    /\ mode = [t \in Tabs |-> IF t = First THEN "idle" ELSE "closed"]
    /\ cartItems = [t \in Tabs |-> <<>>]
    /\ updates = [t \in Tabs |-> <<>>]
    /\ saveDue = [t \in Tabs |-> FALSE]
    /\ refKey = [t \in Tabs |-> GuestKey]
    /\ inbox = [t \in Tabs |-> {}]
    /\ order = [t \in Tabs |-> NoOrder]
    /\ ops = 0
    /\ writable = TRUE
    /\ strict \in BOOLEAN
    /\ closedWith = [t \in Tabs |-> {}]
    /\ addCalls = [id \in ProductIds |-> 0]

Next ==
    \E t \in Tabs :
        \/ Open(t) /\ Shared(t)
        \/ MountEffects(t) /\ Shared(t)
        \/ Close(t) /\ Shared(t)
        \/ Render(t) /\ Shared(t)
        \/ Save(t) /\ Shared(t)
        \/ \E product \in Catalog : addToCart(t, product) /\ Shared(t)
        \/ \E productId \in ProductIds : removeFromCart(t, productId) /\ Shared(t)
        \/ \E productId \in ProductIds, quantity \in -1..MaxQuantity :
                updateQuantity(t, productId, quantity) /\ Shared(t)
        \/ handleSubmit(t) /\ Shared(t)
        \/ orderCreated(t) /\ Shared(t)
        \/ orderFailed(t) /\ Shared(t)
        \/ \E uid \in UserIds : Login(t, uid) /\ Shared(t)
        \/ Logout(t) /\ Shared(t)
        \/ \E e \in Watched : onStorage(t, e) /\ Shared(t)

Spec == InitShared /\ [][Next]_vars

-----------------------------------------------------------------------------
(* One tab alone on the origin, with the cart it had persisted when it was *)
(* last closed kept until the user acts again                              *)

AtRest(t) == mode[t] = "idle" /\ updates[t] = <<>> /\ ~saveDue[t]

\* the history kept by a step of the lone tab
Kept == UNCHANGED <<writable, strict, closedWith, addCalls>>

Acted ==
    /\ closedWith' = [closedWith EXCEPT ![First] = {}]
    /\ UNCHANGED <<writable, strict, addCalls>>

NextSolo ==
    \/ /\ Close(First)
       /\ closedWith' = [closedWith EXCEPT ![First] =
                            IF AtRest(First) THEN {cartItems[First]} ELSE {}]
       /\ UNCHANGED <<writable, strict, addCalls>>
    \/ Open(First) /\ Kept
    \/ MountEffects(First) /\ Kept
    \/ Render(First) /\ Kept
    \/ Save(First) /\ Kept
    \/ \E product \in Catalog : addToCart(First, product) /\ Acted
    \/ \E productId \in ProductIds : removeFromCart(First, productId) /\ Acted
    \/ \E productId \in ProductIds, quantity \in -1..MaxQuantity :
            updateQuantity(First, productId, quantity) /\ Acted
    \/ handleSubmit(First) /\ Acted
    \/ orderCreated(First) /\ Acted
    \/ orderFailed(First) /\ Kept
    \/ \E uid \in UserIds : Login(First, uid) /\ Acted
    \/ Logout(First) /\ Acted

SpecSolo == Init /\ [][NextSolo]_vars

-----------------------------------------------------------------------------
(* The cart operations alone: one guest tab whose empty cart is persisted, *)
(* with the addToCart calls per product id counted                         *)

Unknown == 0 - 1

\* the count of product id after the call u was queued
Counted(u, id) ==
    CASE u.op = "add" /\ u.product.id = id ->
            IF addCalls[id] = Unknown THEN Unknown ELSE addCalls[id] + 1
      [] u.op = "remove" /\ u.id = id -> 0
      [] u.op = "quantity" /\ u.id = id -> IF addCalls[id] = 0 THEN 0 ELSE Unknown
      [] u.op = "set" -> IF HasId(u.items, id) THEN Unknown ELSE 0
      [] OTHER -> addCalls[id]

\* the history kept by a cart operation of the lone tab
Count ==
    /\ addCalls' = [id \in ProductIds |->
                        Counted(updates'[First][Len(updates'[First])], id)]
    /\ UNCHANGED <<writable, strict, closedWith>>

NextCart ==
    \/ \E product \in Catalog : addToCart(First, product) /\ Count
    \/ \E productId \in ProductIds : removeFromCart(First, productId) /\ Count
    \/ \E productId \in ProductIds, quantity \in -1..MaxQuantity :
            updateQuantity(First, productId, quantity) /\ Count
    \/ handleSubmit(First) /\ Kept
    \/ orderCreated(First) /\ Count
    \/ orderFailed(First) /\ Kept
    \/ Render(First) /\ Kept
    \/ Save(First) /\ Kept

SpecCart == InitShared /\ [][NextCart]_vars

-----------------------------------------------------------------------------
(* One guest tab opened on a cart key whose stored value is not a          *)
(* serialized list of lines                                                *)

InitCorrupt ==
    /\ storage \in { [k \in Keys |-> IF k = GuestKey THEN text ELSE NoItem] :
                        text \in CorruptTexts }
    /\ mode = [t \in Tabs |-> "closed"]
    /\ cartItems = [t \in Tabs |-> <<>>]
    /\ updates = [t \in Tabs |-> <<>>]
    /\ saveDue = [t \in Tabs |-> FALSE]
    /\ refKey = [t \in Tabs |-> GuestKey]
    /\ inbox = [t \in Tabs |-> {}]
    /\ order = [t \in Tabs |-> NoOrder]
    /\ ops = 0
    /\ writable = TRUE
    /\ strict \in BOOLEAN
    /\ closedWith = [t \in Tabs |-> {}]
    /\ addCalls = [id \in ProductIds |-> 0]

NextCorrupt ==
    \/ Open(First) /\ Kept
    \/ MountEffects(First) /\ Kept
    \/ Close(First) /\ Kept
    \/ Render(First) /\ Kept
    \/ Save(First) /\ Kept
    \/ \E product \in Catalog : addToCart(First, product) /\ Kept
    \/ \E productId \in ProductIds : removeFromCart(First, productId) /\ Kept
    \/ \E productId \in ProductIds, quantity \in -1..MaxQuantity :
            updateQuantity(First, productId, quantity) /\ Kept

SpecCorrupt == InitCorrupt /\ [][NextCorrupt]_vars

-----------------------------------------------------------------------------
(* One guest tab on an origin whose localStorage rejects every setItem     *)
(* (quota exceeded), holding what was stored before                        *)

InitReadOnly ==
    /\ storage \in
          { [k \in Keys |-> CASE k = GuestKey -> stored[1]
                              [] k = LegacyKey -> stored[2]
                              [] OTHER -> NoItem] :
              stored \in { <<JSONstringify(<<Line(1, 10, 2)>>), NoItem>>,
                           <<NoItem, JSONstringify(<<Line(1, 10, 2)>>)>> } }
    /\ mode = [t \in Tabs |-> "closed"]
    /\ cartItems = [t \in Tabs |-> <<>>]
    /\ updates = [t \in Tabs |-> <<>>]
    /\ saveDue = [t \in Tabs |-> FALSE]
    /\ refKey = [t \in Tabs |-> GuestKey]
    /\ inbox = [t \in Tabs |-> {}]
    /\ order = [t \in Tabs |-> NoOrder]
    /\ ops = 0
    /\ writable = FALSE
    /\ strict \in BOOLEAN
    /\ closedWith = [t \in Tabs |-> {}]
    /\ addCalls = [id \in ProductIds |-> 0]

NextReadOnly ==
    \/ Open(First) /\ Kept
    \/ MountEffects(First) /\ Kept
    \/ Close(First) /\ Kept
    \/ Render(First) /\ Kept
    \/ Save(First) /\ Kept
    \/ \E product \in Catalog : addToCart(First, product) /\ Kept
    \/ \E productId \in ProductIds : removeFromCart(First, productId) /\ Kept
    \/ \E productId \in ProductIds, quantity \in -1..MaxQuantity :
            updateQuantity(First, productId, quantity) /\ Kept
    \/ handleSubmit(First) /\ Kept
    \/ orderCreated(First) /\ Kept
    \/ orderFailed(First) /\ Kept

SpecReadOnly == InitReadOnly /\ [][NextReadOnly]_vars

-----------------------------------------------------------------------------
(* One tab whose logins may be answered with a user record of id 0 *)

\* the ids a user record returned by the login request can carry
IdentityIds == {0} \cup UserIds

InitIdentity ==
    /\ storage = [k \in Keys |-> IF k = GuestKey THEN JSONstringify(<<>>) ELSE NoItem]
    /\ mode = [t \in Tabs |-> IF t = First THEN "idle" ELSE "closed"]
    /\ cartItems = [t \in Tabs |-> <<>>]
    /\ updates = [t \in Tabs |-> <<>>]
    /\ saveDue = [t \in Tabs |-> FALSE]
    /\ refKey = [t \in Tabs |-> GuestKey]
    /\ inbox = [t \in Tabs |-> {}]
    /\ order = [t \in Tabs |-> NoOrder]
    /\ ops = 0
    /\ writable = TRUE
    /\ strict \in BOOLEAN
    /\ closedWith = [t \in Tabs |-> {}]
    /\ addCalls = [id \in ProductIds |-> 0]

NextIdentity ==
    \/ Open(First) /\ Kept
    \/ MountEffects(First) /\ Kept
    \/ Close(First) /\ Kept
    \/ Render(First) /\ Kept
    \/ Save(First) /\ Kept
    \/ \E product \in Catalog : addToCart(First, product) /\ Kept
    \/ \E uid \in IdentityIds : Login(First, uid) /\ Kept
    \/ Logout(First) /\ Kept

SpecIdentity == InitIdentity /\ [][NextIdentity]_vars

-----------------------------------------------------------------------------
(* One tab on an origin where a legacy cart sits next to a guest snapshot, *)
(* left there by a page of the earlier version that was still open          *)

InitLegacy ==
    /\ storage \in
          { [k \in Keys |-> CASE k = GuestKey -> guest
                              [] k = LegacyKey -> JSONstringify(<<Line(1, 10, 2)>>)
                              [] OTHER -> NoItem] :
              guest \in {JSONstringify(<<>>), JSONstringify(<<Line(2, 5, 1)>>)} }
    /\ mode = [t \in Tabs |-> "closed"]
    /\ cartItems = [t \in Tabs |-> <<>>]
    /\ updates = [t \in Tabs |-> <<>>]
    /\ saveDue = [t \in Tabs |-> FALSE]
    /\ refKey = [t \in Tabs |-> GuestKey]
    /\ inbox = [t \in Tabs |-> {}]
    /\ order = [t \in Tabs |-> NoOrder]
    /\ ops = 0
    /\ writable = TRUE
    /\ strict \in BOOLEAN
    /\ closedWith = [t \in Tabs |-> {}]
    /\ addCalls = [id \in ProductIds |-> 0]

NextLegacy ==
    \/ Open(First) /\ Kept
    \/ MountEffects(First) /\ Kept
    \/ Close(First) /\ Kept
    \/ Render(First) /\ Kept
    \/ Save(First) /\ Kept
    \/ \E product \in Catalog : addToCart(First, product) /\ Kept
    \/ \E uid \in UserIds : Login(First, uid) /\ Kept
    \/ Logout(First) /\ Kept

SpecLegacy == InitLegacy /\ [][NextLegacy]_vars

-----------------------------------------------------------------------------
(* Two guest tabs that are both open and at rest on an empty cart *)

InitTabs ==
    /\ storage = [k \in Keys |-> IF k = GuestKey THEN JSONstringify(<<>>) ELSE NoItem]
    /\ mode = [t \in Tabs |-> "idle"]
    /\ cartItems = [t \in Tabs |-> <<>>]
    /\ updates = [t \in Tabs |-> <<>>]
    /\ saveDue = [t \in Tabs |-> FALSE]
    /\ refKey = [t \in Tabs |-> GuestKey]
    /\ inbox = [t \in Tabs |-> {}]
    /\ order = [t \in Tabs |-> NoOrder]
    /\ ops = 0
    /\ writable = TRUE
    /\ strict \in BOOLEAN
    /\ closedWith = [t \in Tabs |-> {}]
    /\ addCalls = [id \in ProductIds |-> 0]

SpecTabs == InitTabs /\ [][Next]_vars

-----------------------------------------------------------------------------
(* Vocabulary of the properties *)

\* positions of the lines of product id
LinesOf(items, id) == {i \in 1..Len(items) : items[i].id = id}

Unique(items) == \A id \in ProductIds : Cardinality(LinesOf(items, id)) <= 1

\* sum of price * quantity, taken from the last line backwards
RECURSIVE TotalOf(_)
TotalOf(items) ==
    IF items = <<>> THEN 0
    ELSE TotalOf(SubSeq(items, 1, Len(items) - 1))
         + items[Len(items)].price * items[Len(items)].quantity

\* sum of quantity, taken from the last line backwards
RECURSIVE CountOf(_)
CountOf(items) ==
    IF items = <<>> THEN 0
    ELSE CountOf(SubSeq(items, 1, Len(items) - 1)) + items[Len(items)].quantity

\* items with the lines of product id left out, the others as they were
RECURSIVE Without(_, _)
Without(items, id) ==
    IF items = <<>> THEN <<>>
    ELSE Without(SubSeq(items, 1, Len(items) - 1), id)
         \o (IF items[Len(items)].id = id THEN <<>> ELSE <<items[Len(items)]>>)

\* the first n queued calls applied one after the other, in the order called
RECURSIVE InCallOrder(_, _, _)
InCallOrder(items, us, n) ==
    IF n = 0 THEN items ELSE ApplyUpdate(InCallOrder(items, us, n - 1), us[n])

\* a cart operation (not a reload) is called in tab t
CartCall(t) ==
    /\ mode'[t] = "handler"
    /\ Len(updates'[t]) = Len(updates[t]) + 1
    /\ updates'[t][Len(updates'[t])].op # "set"

\* the snapshot stored under the key of the identity the user record names
Snapshot(store) == store[getStorageKey(store)]

\* the cart initialization yields for a cart key: the snapshot stored under
\* it, else the legacy cart, else the empty cart
InitializedFor(store, key) ==
    IF Truthy(store[key]) THEN JSONparse(store[key])
    ELSE IF Truthy(store[LegacyKey]) THEN JSONparse(store[LegacyKey])
    ELSE <<>>

-----------------------------------------------------------------------------
(* C1 *)
\* C1 (cart isolation across identities): a tab's cart is only ever written
\* under the key of the identity it was loaded for (refKey, set by the tab's
\* last loadCartFromStorage), so that a mutation made under one identity never
\* changes the snapshot stored under another identity's key.
C1_Isolation ==
    [][\A t \in Tabs : \A k \in CartKeys :
          ((Save(t) \/ Render(t)) /\ storage'[k] # storage[k]) => k = refKey[t]]_vars

-----------------------------------------------------------------------------
(* C2 *)
\* C2 (identity switch): when the identity record is switched to a user whose
\* key holds cart B and authChanged is delivered, the cart of the next render
\* is exactly B; no step changes the snapshot of an identity that is not the
\* active one (so A is kept while B is active); and once the tab is at rest
\* its in-memory cart is the one stored under the active identity's key.
C2_SwitchLoads ==
    \A t \in Tabs, uid \in UserIds :
        (Login(t, uid) /\ Truthy(storage[UserKeyOf[uid]]))
            => Pending(t)' = JSONparse(storage[UserKeyOf[uid]])

C2_OthersKept ==
    \A k \in CartKeys : k # getStorageKey(storage') => storage'[k] = storage[k]

C2_AtRest ==
    \A t \in Tabs : AtRest(t) => cartItems[t] = JSONparse(Snapshot(storage))

C2_IdentitySwitch == [][C2_SwitchLoads /\ C2_OthersKept]_vars /\ []C2_AtRest

\* identity 1 is active again and at rest with its cart A, while identity 2's
\* key holds a different non-empty cart B
C2_Witness ==
    /\ AtRest(First)
    /\ storage["user"] = UserText(1)
    /\ Truthy(storage[UserKeyOf[1]]) /\ Truthy(storage[UserKeyOf[2]])
    /\ storage[UserKeyOf[2]] # JSONstringify(<<>>)
    /\ cartItems[First] # <<>>
    /\ storage[UserKeyOf[1]] # storage[UserKeyOf[2]]
    /\ cartItems[First] = JSONparse(storage[UserKeyOf[1]])

-----------------------------------------------------------------------------
(* C3 *)
\* C3 (persisted snapshot round trip): a tab that was closed at rest, its cart
\* persisted, and is opened again on the same identity key has, once the load
\* of its mount is rendered, the same sequence of lines as before.
C3_RoundTrip ==
    \A t \in Tabs :
        (mode[t] = "idle" /\ updates[t] = <<>> /\ closedWith[t] # {})
            => cartItems[t] \in closedWith[t]

-----------------------------------------------------------------------------
(* C4 *)
\* C4 (persist after every mutation): when the save effect of a commit has
\* run, the value stored under the current identity key is the serialization
\* of the in-memory cart, and storage and memory agree whenever the tab is at
\* rest.
C4_SaveWrites ==
    \A t \in Tabs : Save(t) => Snapshot(storage') = JSONstringify(cartItems'[t])

C4_Agree ==
    \A t \in Tabs : AtRest(t) => Snapshot(storage) = JSONstringify(cartItems[t])

C4_Persisted == [][C4_SaveWrites]_vars /\ []C4_Agree

\* user 1 is logged in and the tab is at rest after product 2, which no
\* stored cart of this user held, was added
C4_Witness ==
    /\ AtRest(First)
    /\ storage["user"] = UserText(1)
    /\ HasId(cartItems[First], 2)
    /\ Snapshot(storage) = storage[UserKeyOf[1]]

-----------------------------------------------------------------------------
C5_RenderInOrder ==
    \A t \in Tabs :
        Render(t) => cartItems'[t] = InCallOrder(cartItems[t], updates[t], Len(updates[t]))

C5_CommitThenSave ==
    \A t \in Tabs :
        (mode[t] = "commit" /\ mode'[t] # "commit")
            => /\ mode'[t] = "idle"
               /\ cartItems'[t] = cartItems[t]
               /\ updates'[t] = <<>>
               /\ Snapshot(storage') = JSONstringify(cartItems[t])

-----------------------------------------------------------------------------
(* C6 *)
\* C6 (uniqueness): the in-memory cart of every tab, the cart its queued
\* calls produce and every stored snapshot hold at most one line per product
\* id.
C6_Unique ==
    /\ \A t \in Tabs : Unique(cartItems[t]) /\ Unique(Pending(t))
    /\ \A k \in Watched : Truthy(storage[k]) => Unique(JSONparse(storage[k]))

\* at rest with two lines, one of them added to until it reached MaxQuantity,
\* and the snapshot of another identity in storage
C6_Witness ==
    /\ AtRest(First)
    /\ Len(cartItems[First]) = 2
    /\ \E i \in 1..2 : cartItems[First][i].quantity = MaxQuantity
    /\ \E k \in CartKeys :
          k # getStorageKey(storage) /\ Truthy(storage[k]) /\ storage[k] # JSONstringify(<<>>)

-----------------------------------------------------------------------------
(* C7 *)
\* C7 (n adds give quantity n): after n >= 1 addToCart calls for a product id
\* since the cart last did not contain it, whatever was called for other ids
\* in between, there is exactly one line for the id and its quantity is n.
C7_AddCount ==
    \A id \in ProductIds :
        addCalls[id] # Unknown =>
            IF addCalls[id] = 0
            THEN LinesOf(Pending(First), id) = {}
            ELSE /\ Cardinality(LinesOf(Pending(First), id)) = 1
                 /\ \A i \in LinesOf(Pending(First), id) :
                        Pending(First)[i].quantity = addCalls[id]

\* three adds of product 1 with operations on product 2 in between
C7_Witness ==
    /\ addCalls[1] = MaxQuantity
    /\ addCalls[2] = Unknown
    /\ HasId(Pending(First), 2)

-----------------------------------------------------------------------------
(* C8 *)
\* C8 (updateQuantity with q <= 0 is removeFromCart): for every cart the tab
\* can hold, every product id and q <= 0, the call updateQuantity makes gives
\* the cart removeFromCart gives, namely the cart without the line of that id
\* and with every other line unchanged, and so the same snapshot.
C8_NonPositiveRemoves ==
    \A id \in ProductIds, q \in -1..0 :
        LET cart == Pending(First)
            got == ApplyUpdate(cart, updateQuantityCall(id, q))
        IN /\ got = ApplyUpdate(cart, removeFromCartCall(id, "removeFromCart"))
           /\ got = Without(cart, id)
           /\ JSONstringify(got) = JSONstringify(Without(cart, id))

\* updateQuantity(id, q <= 0) was called on a cart of two lines holding the id
C8_Witness ==
    /\ Len(cartItems[First]) = 2
    /\ updates[First] # <<>>
    /\ updates[First][1].op = "remove" /\ updates[First][1].by = "updateQuantity"
    /\ HasId(cartItems[First], updates[First][1].id)
    /\ Len(Pending(First)) = 1

-----------------------------------------------------------------------------
(* C9 *)
\* C9 (remove then add): for every cart the tab can hold and every product,
\* removeFromCart(id) followed by addToCart(product) leaves exactly one line
\* for the id, with quantity 1.
C9_RemoveThenAdd ==
    \A product \in Catalog :
        LET removed == ApplyUpdate(Pending(First),
                                   removeFromCartCall(product.id, "removeFromCart"))
            got == ApplyUpdate(removed, addToCartCall(product))
        IN /\ Cardinality(LinesOf(got, product.id)) = 1
           /\ \A i \in LinesOf(got, product.id) : got[i].quantity = 1

\* removeFromCart then addToCart were called on a line of quantity 2 or more
C9_Witness ==
    /\ Len(updates[First]) = 2
    /\ updates[First][1].op = "remove" /\ updates[First][2].op = "add"
    /\ updates[First][1].id = updates[First][2].product.id
    /\ \E i \in LinesOf(cartItems[First], updates[First][1].id) :
            cartItems[First][i].quantity >= 2
    /\ \E i \in LinesOf(Pending(First), updates[First][1].id) :
            Pending(First)[i].quantity = 1

-----------------------------------------------------------------------------
(* C10 *)
\* C10 as stated (getCartTotal at all times): in every state of a mounted
\* tab, also right after an operation was called, getCartTotal() is the sum
\* of price * quantity over the cart the operations so far produced.
C10_TotalAlways ==
    \A t \in Tabs : Listening(t) => getCartTotal(t) = TotalOf(Pending(t))

\* C10 as amended: getCartTotal() is the sum of price * quantity over the
\* lines of the cart of the last render; it is the total of the cart the
\* operations produced as soon as the render that applies them has committed.
C10_TotalOfRendered ==
    \A t \in Tabs :
        Listening(t) =>
            /\ getCartTotal(t) = TotalOf(cartItems[t])
            /\ updates[t] = <<>> => getCartTotal(t) = TotalOf(Pending(t))

\* a rendered cart of two lines, one of them with quantity 2 or more
C10_Witness ==
    /\ mode[First] = "idle" /\ updates[First] = <<>>
    /\ Len(cartItems[First]) = 2
    /\ \E i \in 1..2 : cartItems[First][i].quantity >= 2
    /\ getCartTotal(First) > 0

-----------------------------------------------------------------------------
(* C11 *)
\* C11 (getCartItemsCount): in every state of a mounted tab getCartItemsCount()
\* is the sum of quantity over the lines of the tab's cart, and it is 0
\* exactly when that cart is empty; the render that applies the operations
\* and reloads called so far leaves it the sum over the cart they produce.
C11_CountNow ==
    \A t \in Tabs :
        Listening(t) =>
            /\ getCartItemsCount(t) = CountOf(cartItems[t])
            /\ getCartItemsCount(t) = 0 <=> cartItems[t] = <<>>

C11_CountAfter ==
    \A t \in Tabs :
        (Render(t) /\ mode'[t] # "crashed")
            => getCartItemsCount(t)' =
                   CountOf(InCallOrder(cartItems[t], updates[t], Len(updates[t])))

C11_ItemsCount == []C11_CountNow /\ [][C11_CountAfter]_vars

\* a rendered cart of two lines whose count differs from its number of lines
C11_Witness ==
    /\ mode[First] = "idle" /\ updates[First] = <<>>
    /\ Len(cartItems[First]) = 2
    /\ getCartItemsCount(First) = 2 + MaxQuantity - 1

-----------------------------------------------------------------------------
(* C12 *)
\* C12 (legacy migration): when the effects of a mount run with a snapshot
\* under the legacy key and none under the current identity's key, the cart
\* handed to the next render is the legacy cart and the legacy key is
\* removed; whenever the tab is at rest afterwards the legacy key is absent
\* and the current key holds the in-memory cart, so that a second
\* initialization migrates nothing and loads the same cart.
C12_Adopts ==
    \A t \in Tabs :
        (MountEffects(t) /\ ~Truthy(Snapshot(storage)) /\ Truthy(storage[LegacyKey]))
            => /\ Pending(t)' = JSONparse(storage[LegacyKey])
               /\ storage'[LegacyKey] = NoItem

C12_Migrated ==
    \A t \in Tabs :
        AtRest(t) => /\ storage[LegacyKey] = NoItem
                     /\ Snapshot(storage) = JSONstringify(cartItems[t])

C12_LegacyMigration == [][C12_Adopts]_vars /\ []C12_Migrated

-----------------------------------------------------------------------------
(* C13 *)
\* C13 (corrupt snapshot is absorbed): whatever value that is not a
\* serialized list of lines is stored under the current key when the tab is
\* opened, the tab never fails: no render of the provider and of the
\* components that query the cart throws.
C13_CorruptAbsorbed ==
    \A t \in Tabs : mode[t] # "crashed"

-----------------------------------------------------------------------------
(* C14 *)
\* C14 (write failure is absorbed): when every setItem throws, each render
\* still commits the cart that the operations called give when applied in
\* order, the tab never fails, and no step changes what is stored.
C14_InMemory ==
    \A t \in Tabs :
        Render(t) => cartItems'[t] = InCallOrder(cartItems[t], updates[t], Len(updates[t]))

C14_Absorbed == \A t \in Tabs : ~writable => mode[t] # "crashed"

C14_WriteFailure ==
    [][~writable => (C14_InMemory /\ storage' = storage)]_vars /\ []C14_Absorbed

\* the save effect has run on a cart that differs from the stored one
C14_Witness ==
    /\ ~writable
    /\ AtRest(First)
    /\ Len(cartItems[First]) = 2
    /\ Snapshot(storage) # JSONstringify(cartItems[First])

-----------------------------------------------------------------------------
(* C15 *)
\* C15 (login and logout re-resolve the cart): right after a login as uid the
\* cart of the next render is what initialization gives for uid's key (the
\* snapshot under it, else the legacy cart, else the empty cart), right after
\* a logout it is what initialization gives for the guest key, and neither
\* step changes the snapshot stored under the key of the previous identity.
C15_PreviousKept(old, new) == old # new => storage'[old] = storage[old]

C15_Login ==
    \A t \in Tabs, uid \in UserIds :
        Login(t, uid) => /\ Pending(t)' = InitializedFor(storage, UserKeyOf[uid])
                         /\ refKey'[t] = UserKeyOf[uid]
                         /\ C15_PreviousKept(getStorageKey(storage), UserKeyOf[uid])

C15_Logout ==
    \A t \in Tabs :
        Logout(t) => /\ Pending(t)' = InitializedFor(storage, GuestKey)
                     /\ refKey'[t] = GuestKey
                     /\ C15_PreviousKept(getStorageKey(storage), GuestKey)

C15_AuthChanged == [][C15_Login /\ C15_Logout]_vars

\* right after a logout: the tab still shows the user's cart and the guest
\* cart, a different one, is queued for the next render
C15_Witness ==
    /\ mode[First] = "handler"
    /\ storage["user"] = NoItem
    /\ refKey[First] = GuestKey
    /\ cartItems[First] # <<>>
    /\ Len(updates[First]) = 1 /\ updates[First][1].op = "set"
    /\ Pending(First) # <<>>
    /\ Pending(First) # cartItems[First]
    /\ Pending(First) = JSONparse(storage[GuestKey])

-----------------------------------------------------------------------------
(* C16 *)
\* C16 (storage notification filter): a tab that handles a storage event
\* reloads (the cart of its next render becomes what initialization yields
\* for the key of the identity record) when the event's key is the key the
\* tab last loaded its cart for or the legacy key; for any other key the
\* step leaves the tab's cart, its queued updates and the storage unchanged.
C16_Filter ==
    \A t \in Tabs, e \in Watched :
        onStorage(t, e) =>
            IF e = refKey[t] \/ e = LegacyKey
            THEN /\ Pending(t)' = InitializedFor(storage, getStorageKey(storage))
                 /\ refKey'[t] = getStorageKey(storage)
            ELSE /\ cartItems'[t] = cartItems[t]
                 /\ updates'[t] = updates[t]
                 /\ refKey'[t] = refKey[t]
                 /\ storage' = storage

C16_StorageFilter == [][C16_Filter]_vars

\* a guest tab that reloaded on an event for the guest key: it still shows
\* its own cart and the other tab's cart is queued for the next render
C16_Witness ==
    /\ mode[First] = "idle"
    /\ storage["user"] = NoItem
    /\ refKey[First] = GuestKey
    /\ GuestKey \notin inbox[First]
    /\ cartItems[First] # <<>>
    /\ Len(updates[First]) = 1 /\ updates[First][1].op = "set"
    /\ Pending(First) # <<>>
    /\ Pending(First) # cartItems[First]

-----------------------------------------------------------------------------
(* C17 *)
\* C17 (cross-tab last writer wins): with both tabs on the identity the user
\* record names, a tab that handles a storage event for its cart key drops
\* what it held and was about to render, and the cart of its next render is
\* the value the storage holds under that key, i.e. the last one written by
\* either tab, which the step leaves in place.
C17_TakesLastWritten ==
    \A t \in Tabs : \A o \in Tabs \ {t} :
        (/\ onStorage(t, refKey[t])
         /\ Listening(o)
         /\ refKey[o] = refKey[t]
         /\ refKey[t] = getStorageKey(storage))
            => /\ Pending(t)' = JSONparse(storage[refKey[t]])
               /\ storage'[refKey[t]] = storage[refKey[t]]

C17_LastWriterWins == [][C17_TakesLastWritten]_vars

\* the second tab is at rest with the cart it wrote last; the first tab has
\* handled the event and is about to replace its own, different cart with it
C17_Witness ==
    /\ AtRest(Second)
    /\ cartItems[Second] # <<>>
    /\ Snapshot(storage) = JSONstringify(cartItems[Second])
    /\ mode[First] = "idle"
    /\ refKey[First] = refKey[Second]
    /\ refKey[First] = getStorageKey(storage)
    /\ inbox[First] = {}
    /\ cartItems[First] # <<>>
    /\ cartItems[First] # cartItems[Second]
    /\ Len(updates[First]) = 1 /\ updates[First][1].op = "set"
    /\ Pending(First) = cartItems[Second]

-----------------------------------------------------------------------------
(* C18 *)
\* C18 (checkout success clears the cart): when the order request of the
\* checkout succeeds the empty cart is queued in place of everything the tab
\* held; the render that follows commits the empty cart and schedules the
\* save effect; and that save effect stores the empty cart under the key of
\* the current identity.
C18_Cleared ==
    \A t \in Tabs :
        orderCreated(t) => /\ updates'[t] = <<SetItems(<<>>)>>
                           /\ Pending(t)' = <<>>

C18_Rendered ==
    \A t \in Tabs :
        (Render(t) /\ updates[t] = <<SetItems(<<>>)>>)
            => cartItems'[t] = <<>> /\ saveDue'[t]

C18_Saved ==
    \A t \in Tabs :
        (Save(t) /\ cartItems[t] = <<>>)
            => /\ storage'[getStorageKey(storage)] = JSONstringify(<<>>)
               /\ getStorageKey(storage') = getStorageKey(storage)

C18_CheckoutClears == [][C18_Cleared /\ C18_Rendered /\ C18_Saved]_vars

\* the order of a persisted, non-empty cart has just succeeded
C18_Witness ==
    /\ mode[First] = "idle"
    /\ order[First] = NoOrder
    /\ cartItems[First] # <<>>
    /\ Snapshot(storage) = JSONstringify(cartItems[First])
    /\ updates[First] = <<SetItems(<<>>)>>

-----------------------------------------------------------------------------
(* C19 *)
\* C19 (absent id): for every cart the tab can hold and every product id the
\* cart has no line for, the calls removeFromCart(id) and updateQuantity(id, q)
\* make, for q below, within and above the quantities in use, give back the
\* same sequence of lines; and a step that makes such a call leaves the cart
\* of the next render as it was and the tab running.
C19_SameLines ==
    \A id \in ProductIds, q \in (0 - 2)..(MaxQuantity + 2) :
        LET cart == Pending(First)
        IN ~HasId(cart, id) =>
              /\ ApplyUpdate(cart, removeFromCartCall(id, "removeFromCart")) = cart
              /\ ApplyUpdate(cart, updateQuantityCall(id, q)) = cart

C19_SilentStep ==
    \A id \in ProductIds, q \in (0 - 1)..MaxQuantity :
        (/\ removeFromCart(First, id) \/ updateQuantity(First, id, q)
         /\ ~HasId(Pending(First), id))
            => /\ Pending(First)' = Pending(First)
               /\ cartItems'[First] = cartItems[First]
               /\ mode'[First] # "crashed"

C19_AbsentNoOp == []C19_SameLines /\ [][C19_SilentStep]_vars

\* updateQuantity(id, q) with q >= 1 was called on a non-empty cart that has
\* no line for id
C19_Witness ==
    /\ cartItems[First] # <<>>
    /\ Len(updates[First]) = 1
    /\ updates[First][1].op = "quantity"
    /\ ~HasId(cartItems[First], updates[First][1].id)
    /\ Pending(First) = cartItems[First]

-----------------------------------------------------------------------------
(* C20 *)
\* C20 (quantity invariant): starting from the empty cart, every line of the
\* rendered cart, of the cart after each queued call and of every stored
\* snapshot has an integer quantity of at least 1; and right after
\* updateQuantity(id, q) with q <= 0 the cart has no line for id.
C20_Positive(items) ==
    \A i \in 1..Len(items) : items[i].quantity \in Nat /\ items[i].quantity >= 1

C20_Quantities ==
    /\ \A t \in Tabs :
          /\ C20_Positive(cartItems[t])
          /\ \A n \in 0..Len(updates[t]) :
                C20_Positive(ApplyAll(cartItems[t], SubSeq(updates[t], 1, n)))
    /\ \A k \in CartKeys : Truthy(storage[k]) => C20_Positive(JSONparse(storage[k]))

C20_Removed ==
    \A t \in Tabs, id \in ProductIds, q \in (0 - 1)..0 :
        updateQuantity(t, id, q) => ~HasId(Pending(t)', id)

C20_QuantityInvariant == []C20_Quantities /\ [][C20_Removed]_vars

\* the minus button on a line of quantity 1: updateQuantity(id, 0) was called
\* and the cart's only line is about to go
C20_Witness ==
    /\ Len(cartItems[First]) = 1
    /\ cartItems[First][1].quantity = 1
    /\ Len(updates[First]) = 1
    /\ updates[First][1].by = "updateQuantity"
    /\ updates[First][1].id = cartItems[First][1].id
    /\ Pending(First) = <<>>

-----------------------------------------------------------------------------
(* C21 *)
\* C21 (storage key derivation): the cart key depends on the user record
\* only; whenever a user record with an id is stored, id 0 included, the key
\* is neither the guest key nor the legacy key and differs from the key of
\* every other id; and the key is the guest key exactly when no user record
\* is stored.
C21_KeyFor(uid) == getStorageKey([storage EXCEPT !["user"] = UserText(uid)])

C21_KeyDerivation ==
    /\ getStorageKey(storage)
          = getStorageKey([k \in Keys |-> IF k = "user" THEN storage[k] ELSE NoItem])
    /\ storage["user"].json = "object"
          => getStorageKey(storage) \notin {GuestKey, LegacyKey}
    /\ \A uid \in IdentityIds : \A other \in IdentityIds \ {uid} :
          C21_KeyFor(uid) # C21_KeyFor(other)
    /\ getStorageKey(storage) = GuestKey <=> storage["user"] = NoItem

-----------------------------------------------------------------------------
(* C22 *)
\* C22 (insertion order): for every cart the tab can hold, addToCart of a
\* product without a line puts its id after the ids already there, addToCart
\* of a product with a line and updateQuantity with q > 0 leave the order of
\* the ids as it is, and removeFromCart leaves the other ids in their order;
\* the same holds for each call queued in the tab, applied in call order.
C22_IdsOf(items) == [i \in 1..Len(items) |-> items[i].id]

C22_Others(ids, id) == SelectSeq(ids, LAMBDA other : other # id)

C22_Ordered(before, u, after) ==
    LET ids == C22_IdsOf(before)
    IN CASE u.op = "add" ->
                C22_IdsOf(after) = IF HasId(before, u.product.id)
                                   THEN ids
                                   ELSE Append(ids, u.product.id)
         [] u.op = "quantity" -> C22_IdsOf(after) = ids
         [] u.op = "remove" -> C22_IdsOf(after) = C22_Others(ids, u.id)
         [] OTHER -> TRUE

C22_EachCall ==
    LET cart == Pending(First)
    IN /\ \A product \in Catalog :
             C22_Ordered(cart, addToCartCall(product),
                         ApplyUpdate(cart, addToCartCall(product)))
       /\ \A id \in ProductIds, q \in (0 - 1)..MaxQuantity :
             C22_Ordered(cart, updateQuantityCall(id, q),
                         ApplyUpdate(cart, updateQuantityCall(id, q)))
       /\ \A id \in ProductIds :
             C22_Ordered(cart, removeFromCartCall(id, "removeFromCart"),
                         ApplyUpdate(cart, removeFromCartCall(id, "removeFromCart")))

C22_Queued ==
    \A t \in Tabs : \A n \in 1..Len(updates[t]) :
        C22_Ordered(InCallOrder(cartItems[t], updates[t], n - 1), updates[t][n],
                    InCallOrder(cartItems[t], updates[t], n))

C22_Rendered ==
    \A t \in Tabs :
        (Render(t) /\ mode'[t] # "crashed")
            => cartItems'[t] = InCallOrder(cartItems[t], updates[t], Len(updates[t]))

C22_InsertionOrder == [](C22_EachCall /\ C22_Queued) /\ [][C22_Rendered]_vars

\* the first of two lines was removed and added again in one handler: it
\* comes back after the line that stayed
C22_Witness ==
    /\ Len(cartItems[First]) = 2
    /\ Len(updates[First]) = 2
    /\ updates[First][1].op = "remove" /\ updates[First][1].id = cartItems[First][1].id
    /\ updates[First][2].op = "add" /\ updates[First][2].product.id = cartItems[First][1].id
    /\ C22_IdsOf(Pending(First)) = <<cartItems[First][2].id, cartItems[First][1].id>>

-----------------------------------------------------------------------------
(* C23 *)
\* C23 (teardown releases both subscriptions): while a tab's provider is
\* torn down, whatever the other tab writes or dispatches, no event is kept
\* for the torn-down tab and its cart, queued updates, pending save and key
\* stay as the teardown left them; and a step taken while every provider is
\* torn down writes nothing to the storage.
C23_Down(t) == mode[t] \in {"closed", "crashed"}

C23_Released ==
    /\ \A t \in Tabs :
          (C23_Down(t) /\ mode'[t] = mode[t])
              => /\ inbox'[t] = {}
                 /\ cartItems'[t] = cartItems[t]
                 /\ updates'[t] = <<>>
                 /\ ~saveDue'[t]
                 /\ refKey'[t] = refKey[t]
    /\ (\A t \in Tabs : C23_Down(t)) => storage' = storage

C23_Teardown == [][C23_Released]_vars

\* the second tab wrote a cart and was closed; the first tab, still open, has
\* the event of that write to handle
C23_Witness ==
    /\ mode[Second] = "closed"
    /\ inbox[Second] = {}
    /\ mode[First] = "idle"
    /\ GuestKey \in inbox[First]
    /\ cartItems[First] = <<>>
    /\ storage[GuestKey] # JSONstringify(<<>>)

-----------------------------------------------------------------------------
(* C24 *)
\* C24 (migration is guarded by the per-identity key): a load that finds a
\* snapshot under the key of the current identity, the empty cart included,
\* writes nothing and hands that snapshot to setCartItems; a load migrates
\* only when that key is absent and a legacy cart is there.  So no step
\* touches the legacy cart when the key of the identity the step leaves
\* active was present before it, the legacy cart only ever goes away, and a
\* login or logout onto a present key queues that key's snapshot.
C24_Load(store) ==
    LET key == getStorageKey(store)
        load == loadCartFromStorage(store)
    IN /\ load.key = key
       /\ Truthy(store[key]) => load.writes = <<>> /\ load.items = JSONparse(store[key])
       /\ load.writes # <<>>
             => /\ ~Truthy(store[key])
                /\ Truthy(store[LegacyKey])
                /\ load.items = JSONparse(store[LegacyKey])

C24_EveryLoad ==
    /\ C24_Load(storage)
    /\ C24_Load(ApplyWrites(storage, MountPass(storage, <<>>).writes))
    /\ \A uid \in UserIds : C24_Load([storage EXCEPT !["user"] = UserText(uid)])

C24_LegacyKept ==
    /\ Truthy(storage[getStorageKey(storage')]) => storage'[LegacyKey] = storage[LegacyKey]
    /\ storage'[LegacyKey] # storage[LegacyKey] => storage'[LegacyKey] = NoItem

C24_SnapshotLoaded ==
    \A t \in Tabs :
        (/\ Logout(t) \/ \E uid \in UserIds : Login(t, uid)
         /\ Truthy(storage[getStorageKey(storage')]))
            => Pending(t)' = JSONparse(storage[getStorageKey(storage')])

C24_GuardedMigration == []C24_EveryLoad /\ [][C24_LegacyKept /\ C24_SnapshotLoaded]_vars

\* a guest tab was opened on its stored snapshot and is at rest with it,
\* while the legacy cart, a different one, is still in the storage
C24_Witness ==
    /\ AtRest(First)
    /\ storage["user"] = NoItem
    /\ Truthy(storage[LegacyKey])
    /\ Truthy(storage[GuestKey])
    /\ cartItems[First] = JSONparse(storage[GuestKey])
    /\ cartItems[First] # JSONparse(storage[LegacyKey])

-----------------------------------------------------------------------------
(* C25 *)
\* C25 (initialization does not disturb the stored snapshot): when the
\* effects of the first commit run on a key that holds a non-empty snapshot,
\* the key holds the same snapshot after them.
C25_InitKeepsSnapshot ==
    [][\A t \in Tabs :
          (/\ MountEffects(t)
           /\ Truthy(Snapshot(storage))
           /\ Snapshot(storage) # JSONstringify(<<>>))
              => Snapshot(storage') = Snapshot(storage)]_vars

-----------------------------------------------------------------------------
(* C26 *)
\* C26 (double mount keeps the cart): when the effects of the first commit
\* run as mount, cleanup, mount on a key that holds a non-empty snapshot S,
\* the cart handed to the next render is S, and once the tab is at rest its
\* cart and the stored snapshot are the same.
C26_MountLoads ==
    \A t \in Tabs :
        (/\ MountEffects(t)
         /\ strict
         /\ Truthy(Snapshot(storage))
         /\ Snapshot(storage) # JSONstringify(<<>>))
            => Pending(t)' = JSONparse(Snapshot(storage))

C26_AtRest ==
    \A t \in Tabs : (strict /\ AtRest(t)) => Snapshot(storage) = JSONstringify(cartItems[t])

C26_DoubleMount == [][C26_MountLoads]_vars /\ []C26_AtRest

-----------------------------------------------------------------------------
(* C27 *)
\* C27 (a tab without user mutations loses nothing): a step in which a tab
\* runs the effects of its first commit or handles a storage event leaves,
\* under every cart key, a line for each product id that had a line there
\* before the step.
C27_IdsStored(store, k) ==
    IF Truthy(store[k]) THEN {l[1] : l \in {store[k].items[i] : i \in 1..Len(store[k].items)}}
    ELSE {}

C27_PassiveKeeps ==
    [][\A t \in Tabs :
          (MountEffects(t) \/ \E e \in Watched : onStorage(t, e))
              => \A k \in CartKeys : C27_IdsStored(storage, k) \subseteq C27_IdsStored(storage', k)]_vars

-----------------------------------------------------------------------------
(* C28 *)
\* C28 (cross-tab convergence): when every open tab is at rest (nothing
\* queued, no save effect pending), has no storage event left to handle and
\* has loaded its cart for the identity the user record names, every open
\* tab holds the cart stored under that identity's key.
C28_Quiet ==
    \A t \in Tabs :
        Listening(t) => /\ AtRest(t)
                        /\ inbox[t] = {}
                        /\ refKey[t] = getStorageKey(storage)

C28_Converged ==
    C28_Quiet => \A t \in Tabs : Listening(t) => cartItems[t] = JSONparse(Snapshot(storage))

-----------------------------------------------------------------------------
(* C29 *)
\* C29 (checkout failure preserves the cart): a submit leaves the rendered
\* cart, the queued calls and the storage as they are, and sends no request
\* when the rendered cart is empty; a failed request leaves them as they
\* are as well, so that in neither case the empty cart is queued.
C29_Untouched(t) ==
    /\ cartItems'[t] = cartItems[t]
    /\ updates'[t] = updates[t]
    /\ Pending(t)' = Pending(t)
    /\ storage' = storage

C29_Submit ==
    \A t \in Tabs :
        handleSubmit(t) => /\ C29_Untouched(t)
                           /\ cartItems[t] = <<>> => order'[t] = NoOrder

C29_Failed == \A t \in Tabs : orderFailed(t) => C29_Untouched(t)

C29_FailureKeepsCart == [][C29_Submit /\ C29_Failed]_vars

\* the order of a persisted, non-empty cart is in flight
C29_Witness ==
    /\ AtRest(First)
    /\ order[First].status = "sent"
    /\ cartItems[First] # <<>>
    /\ Snapshot(storage) = JSONstringify(cartItems[First])

-----------------------------------------------------------------------------
(* C30 *)
\* C30 (checkout clears only what was ordered): when the request of an order
\* succeeds, every line the tab holds for a product that was not among the
\* items of the order is still there afterwards, and when the identity is no
\* longer the one the order was submitted under the cart is left as it is.
C30_UnorderedKept ==
    \A t \in Tabs :
        orderCreated(t) =>
            \A i \in 1..Len(Pending(t)) :
                ~HasId(order[t].items, Pending(t)[i].id)
                    => HasId(Pending(t)', Pending(t)[i].id)

C30_OtherIdentityKept ==
    \A t \in Tabs :
        (orderCreated(t) /\ getStorageKey(storage) # order[t].key)
            => Pending(t)' = Pending(t)

C30_ClearsOnlyOrdered == [][C30_UnorderedKept /\ C30_OtherIdentityKept]_vars

====
